---- MODULE Spec2Model ----
(***************************************************************************)
(* Model of src/app.py (RedditBanMonitor): the watchlist, the status map,  *)
(* the monitoring loop and the add/remove command handlers, as cooperative *)
(* asyncio tasks.  One action is one run of a task from the point where it *)
(* is resumed to its next await that really suspends (an HTTP call or a    *)
(* sleep): between two such points no other task runs.                     *)
(*                                                                         *)
(* asyncio.CancelledError is a BaseException (Python >= 3.8), so the       *)
(* `except Exception` clauses of the code do not catch a cancellation.     *)
(* Command handlers run one at a time (Application.builder() keeps the     *)
(* default concurrent_updates = False) but interleave with the loop.       *)
(***************************************************************************)
EXTENDS Integers, FiniteSets, Sequences, TLC

\* Number of distinct account names the commands are called with.
NumUsers == 2

Users == 1..NumUsers

\* Stands for "no username yet" in the locals of the loop and of the handler.
NoUser == NumUsers + 1

VARIABLES
    environ,          \* the required variables that os.getenv finds set
    exitCode,         \* exit status of the process, once it has ended
    mainPc,           \* position of main(): process_start .. exited
    session,          \* self.session: "none", "open", "closed"
    reddit_token,     \* self.reddit_token: "none" (falsy), "valid", "expired"
    monitored_users,  \* self.monitored_users
    user_status,      \* self.user_status, a function on a subset of Users
    loopPc,           \* where the monitoring task is suspended
    cancelRequested,  \* monitoring_task.cancel() was called
    snapshot,         \* the copy the for loop iterates (line 207)
    visited,          \* the elements of the copy the iterator has yielded
    username,         \* loop local
    response,         \* answer to the loop's lookup, once it has arrived
    truth,            \* the account's state at the source when it answered
    is_active,        \* loop local
    send_result,      \* the notification POST of the current step
    cmdPc,            \* where the running command handler is suspended
    cmdUser,          \* username of the running add handler
    cmd_is_active,    \* is_active of the running add handler
    arg,              \* context.args[0] of the command handled last, as the
                      \* user typed it (followed in CommandSpec only)
    \* history variables, read by the properties only
    atStart,          \* monitored_users at the moment the sweep started
    probes,           \* calls of _check_user_status per name in the sweep
    stepNotes         \* kinds of notification attempted in the current step

vars == << arg, environ, exitCode, mainPc, session, reddit_token, monitored_users, user_status,
           loopPc, cancelRequested, snapshot, visited, username, response, truth,
           is_active, send_result, cmdPc, cmdUser, cmd_is_active,
           atStart, probes, stepNotes >>

procVars == << arg, environ, exitCode >>
mainVars == << arg, environ, exitCode, mainPc, session >>
storeVars == << monitored_users, user_status >>
loopLocals == << snapshot, visited, username, response, truth, is_active,
                 send_result >>
cmdVars == << cmdPc, cmdUser, cmd_is_active >>
sweepHist == << atStart, probes >>

-----------------------------------------------------------------------------
\* The status map (a dict): read with a default, write, delete.

EmptyStatus == [x \in {} |-> TRUE]

\* self.user_status.get(username, True)
GetStatus(st, u, default) == IF u \in DOMAIN st THEN st[u] ELSE default

\* self.user_status[username] = is_active
SetStatus(st, u, v) ==
    [x \in DOMAIN st \cup {u} |-> IF x = u THEN v ELSE st[x]]

\* del self.user_status[username], guarded by `in`
DelStatus(st, u) == [x \in DOMAIN st \ {u} |-> st[x]]

\* _status_command: the three counts of its reply
ActiveCount(st) == Cardinality({u \in DOMAIN st : st[u]})
BannedCount(st) == Cardinality(DOMAIN st) - ActiveCount(st)
TotalMonitored(users) == Cardinality(users)

-----------------------------------------------------------------------------
\* The status source client.

Responses == {"200", "404", "401", "other", "error"}

\* A check that takes only a 200 for an active account.
CheckResultFailClosed(resp) == resp = "200"

\* _check_user_status: the value returned for a response of the lookup;
\* "error" is an exception raised by the GET or by response.json().
CheckResult(resp) ==
    CASE resp = "200" -> TRUE
      [] resp = "404" -> FALSE
      [] OTHER -> TRUE

\* The state of an account at the source; it changes at any time, so every
\* lookup finds either.
AccountStates == {"active", "notfound"}

\* What the source can answer to a lookup, made with token tok, of an account
\* in state real: a transport error at any time, 401 for a token it does not
\* accept, else the account's state or some other code (rate limit, server
\* error).
SourceAnswers(tok, real) ==
    {"error"} \cup
    (IF tok = "valid"
     THEN {IF real = "notfound" THEN "404" ELSE "200", "other"}
     ELSE {"401"})

\* _get_reddit_token: "valid" is a 200 with a usable access_token, "none" a
\* 200 whose access_token is falsy (the code stores it unexamined), "fail"
\* every path that raises.
TokenOutcomes == {"valid", "none", "fail"}

-----------------------------------------------------------------------------
\* The monitoring loop's decisions.

\* A comparison that ignores the previous status.
NotifyKindNoPrev(prev, cur) == IF cur THEN "none" ELSE "banned"

\* Lines 213-222: which notification a step sends.
NotifyKind(prev, cur) ==
    IF prev /\ ~cur THEN "banned"
    ELSE IF ~prev /\ cur THEN "restored"
    ELSE "none"

\* An iteration over the live set instead of the copy.
IterRemainingLive(snap, live, seen) == live \ seen

\* Line 207: what the iterator of monitored_users.copy() has still to yield.
IterRemaining(snap, live, seen) == snap \ seen

\* A notifier that lets a delivery failure escape to its caller.
SendRaisesOnFailure(result) == result = "failed"

\* Lines 183-195: _send_telegram_message catches every Exception, so no
\* delivery result raises to the loop.
SendRaises(result) == FALSE

\* A handler that gives up the loop on the first failed check.
OnCheckErrorBreak == "break"

\* Lines 229-230: the handler of a failed check logs the error, and the for
\* loop goes on with its next element.
OnCheckError == "continue"

\* A step that keeps the old entry.
StepStatusKeep(st, u, cur) == st

\* Line 224: the status the step stores.
StepStatus(st, u, cur) == SetStatus(st, u, cur)

LoopSuspended == {"created", "idle_sleep", "auth", "probe", "send", "pause",
                  "cycle_sleep"}

ZeroProbes == [u \in Users |-> 0]

-----------------------------------------------------------------------------
\* The required environment variables (lines 47-52).
RequiredVars == {"TELEGRAM_BOT_TOKEN", "TELEGRAM_CHAT_ID",
                 "REDDIT_CLIENT_ID", "REDDIT_CLIENT_SECRET"}

\* Line 54: the required variables that are unset or empty.
MissingVars(env) == RequiredVars \ env

\* The process starts `asyncio.run(main())` (line 356) in some environment;
\* the fields are those RedditBanMonitor() sets before it validates (lines
\* 35-40).
Init ==
    /\ arg = << >>
    /\ environ \in SUBSET RequiredVars
    /\ exitCode = "none"
    /\ mainPc = "process_start"
    /\ session = "none"
    /\ reddit_token = "none"
    /\ monitored_users = {}
    /\ user_status = EmptyStatus
    /\ loopPc = "none"
    /\ cancelRequested = FALSE
    /\ snapshot = {}
    /\ visited = {}
    /\ username = NoUser
    /\ response = "none"
    /\ truth = "none"
    /\ is_active = TRUE
    /\ send_result = "none"
    /\ cmdPc = "idle"
    /\ cmdUser = NoUser
    /\ cmd_is_active = TRUE
    /\ atStart = {}
    /\ probes = ZeroProbes
    /\ stepNotes = << >>

-----------------------------------------------------------------------------
\* The argument of /add and /remove.  A string is a sequence of characters.

\* Longest plain name the commands are called with.
MaxLen == 2

\* Largest watchlist CommandSpec builds.
MaxNames == 2

\* The characters plain names are made of.
NameChars == {"a", "u"}

\* `pat in s`
Contains(s, pat) ==
    \E i \in 1..(Len(s) - Len(pat) + 1) : SubSeq(s, i, i + Len(pat) - 1) = pat

\* s.replace(old, new) for a non-empty old: every occurrence found in a
\* scan from the left, the scan going on after the occurrence.
RECURSIVE Replace(_, _, _)
Replace(s, old, new) ==
    IF Len(s) < Len(old) THEN s
    ELSE IF SubSeq(s, 1, Len(old)) = old
         THEN new \o Replace(SubSeq(s, Len(old) + 1, Len(s)), old, new)
         ELSE << Head(s) >> \o Replace(Tail(s), old, new)

\* Lines 261 and 285: context.args[0].replace('u/', '').replace('/u/', '')
Username(a) ==
    Replace(Replace(a, << "u", "/" >>, << >>), << "/", "u", "/" >>, << >>)

\* The plain names: non-empty, no "u/" in them.
PlainNames ==
    { s \in UNION { [1..n -> NameChars] : n \in 1..MaxLen } :
        ~Contains(s, << "u", "/" >>) }

\* The three ways to write the name n in a command.
Forms(n) == { n, << "u", "/" >> \o n, << "/", "u", "/" >> \o n }

Arguments == UNION { Forms(n) : n \in PlainNames }

\* The plain name an argument is a way to write.
Denoted(a) == CHOOSE n \in PlainNames : a \in Forms(n)

-----------------------------------------------------------------------------
\* The environment: the token's life.

\* The bearer token reaches the end of its lifetime.
TokenExpires ==
    /\ mainPc \in {"startup_send", "running"}
    /\ reddit_token = "valid"
    /\ reddit_token' = "expired"
    /\ UNCHANGED << mainVars, storeVars, loopPc, cancelRequested,
                    loopLocals, cmdVars, sweepHist, stepNotes >>

\* What a lookup made now can answer: a closed session raises in the client.
LookupAnswers(real) ==
    IF session = "open" THEN SourceAnswers(reddit_token, real) ELSE {"error"}

\* What a token request made now can yield.
TokenAnswers == IF session = "open" THEN TokenOutcomes ELSE {"fail"}

-----------------------------------------------------------------------------
\* main(), initialize(), start(), stop()

\* main() constructs the monitor (line 335).  With a required variable
\* missing _validate_config raises ValueError (line 56) before bot_instance
\* is assigned: main() logs it at line 340, its finally clause finds
\* bot_instance None, and main() returns.
Construct ==
    /\ mainPc = "process_start"
    /\ mainPc' = IF MissingVars(environ) # {} THEN "stopped" ELSE "constructed"
    /\ UNCHANGED << procVars, session, reddit_token, storeVars, loopPc,
                    cancelRequested, loopLocals, cmdVars, sweepHist, stepNotes >>

\* main() is over: asyncio.run returns, or raises what lines 357-360 catch,
\* and the script ends; a termination signal ends it by sys.exit(0) (line
\* 348).  Either way the exit status is 0.
ProcessExit ==
    /\ mainPc = "stopped"
    /\ mainPc' = "exited"
    /\ exitCode' = 0
    /\ UNCHANGED << arg, environ, session, reddit_token, storeVars, loopPc,
                    cancelRequested, loopLocals, cmdVars, sweepHist, stepNotes >>

\* initialize(): open the session and get the first token; a failure raises
\* to main(), whose finally clause runs stop(): no task to cancel, no
\* application, the session is closed.
Initialize(out) ==
    /\ mainPc = "constructed"
    /\ out \in TokenOutcomes
    /\ IF out = "fail"
       THEN /\ mainPc' = "stopped"
            /\ session' = "closed"
            /\ UNCHANGED reddit_token
       ELSE /\ mainPc' = "initialized"
            /\ session' = "open"
            /\ reddit_token' = out
    /\ UNCHANGED procVars
    /\ UNCHANGED << storeVars, loopPc, cancelRequested, loopLocals,
                    cmdVars, sweepHist, stepNotes >>

\* start() up to its first await that suspends: the monitoring task exists
\* and main() waits for the startup message to be sent.
Start ==
    /\ mainPc = "initialized"
    /\ mainPc' = "startup_send"
    /\ loopPc' = "created"
    /\ UNCHANGED procVars
    /\ UNCHANGED << session, reddit_token, storeVars, cancelRequested,
                    loopLocals, cmdVars, sweepHist, stepNotes >>

\* start(): the startup message returned (it never raises) and
\* start_polling() succeeded; commands are now received.
StartPolling ==
    /\ mainPc = "startup_send"
    /\ mainPc' = "running"
    /\ UNCHANGED procVars
    /\ UNCHANGED << session, reddit_token, storeVars, loopPc,
                    cancelRequested, loopLocals, cmdVars, sweepHist, stepNotes >>

\* stop() up to `await self.monitoring_task`, entered from main()'s finally
\* clause when start() raised or was cancelled by a termination signal.
StopCancel ==
    /\ mainPc \in {"startup_send", "running"}
    /\ loopPc # "done"
    /\ mainPc' = "stop_await"
    /\ cancelRequested' = TRUE
    /\ UNCHANGED procVars
    /\ UNCHANGED << session, reddit_token, storeVars, loopPc,
                    loopLocals, cmdVars, sweepHist, stepNotes >>

\* A stop() that does not wait for the task it cancelled.
TaskAwaitedNoWait(pc) == TRUE

\* Lines 112-115: `await self.monitoring_task` returns when the task is done.
TaskAwaited(pc) == pc = "done"

\* stop() after the task ended: the application stops, the session closes.
StopFinish ==
    /\ mainPc = "stop_await"
    /\ TaskAwaited(loopPc)
    /\ cmdPc = "idle"
    /\ mainPc' = "stopped"
    /\ session' = "closed"
    /\ UNCHANGED procVars
    /\ UNCHANGED << reddit_token, storeVars, loopPc, cancelRequested,
                    loopLocals, cmdVars, sweepHist, stepNotes >>

-----------------------------------------------------------------------------
\* _monitoring_loop

\* The for loop yields u and the step runs to the first await of
\* _check_user_status(u): the token request when no token is held (line
\* 155), else the lookup (line 163).
StartStep(snap, seen, prb, u) ==
    /\ snapshot' = snap
    /\ visited' = seen \cup {u}
    /\ username' = u
    /\ probes' = [prb EXCEPT ![u] = IF @ < 2 THEN @ + 1 ELSE @]
    /\ response' = "none"
    /\ truth' = "none"
    /\ send_result' = "none"
    /\ stepNotes' = << >>
    /\ is_active' = TRUE
    /\ loopPc' = IF reddit_token = "none" THEN "auth" ELSE "probe"

\* The for loop goes on: its next element, or, the copy exhausted, the sleep
\* of line 233.  The locals of the sweep are dead from there on (each is
\* assigned again before it is read) and take their initial values; start
\* is the watchlist as it was when the sweep started.
NextIteration(snap, seen, prb, start) ==
    LET rest == IterRemaining(snap, monitored_users, seen) IN
    IF rest = {}
    THEN /\ loopPc' = "cycle_sleep"
         /\ snapshot' = {}
         /\ visited' = {}
         /\ probes' = ZeroProbes
         /\ atStart' = {}
         /\ username' = NoUser
         /\ response' = "none"
         /\ truth' = "none"
         /\ send_result' = "none"
         /\ stepNotes' = << >>
         /\ is_active' = TRUE
    ELSE /\ atStart' = start
         /\ \E u \in rest : StartStep(snap, seen, prb, u)

\* The task ends; the coroutine's frame is gone and its locals take their
\* initial values.
LoopEnds ==
    /\ loopPc' = "done"
    /\ snapshot' = {}
    /\ visited' = {}
    /\ username' = NoUser
    /\ response' = "none"
    /\ truth' = "none"
    /\ is_active' = TRUE
    /\ send_result' = "none"
    /\ atStart' = {}
    /\ probes' = ZeroProbes
    /\ stepNotes' = << >>

\* A loop that sweeps whatever the watchlist holds.
NothingToCheckNever(users) == FALSE

\* Line 201: `if not self.monitored_users`.
NothingToCheck(users) == users = {}

\* Where the task is suspended when it next runs the head of `while True`:
\* not yet run, or in the sleep of line 202 or of line 233.
LoopWakePoints == {"created", "idle_sleep", "cycle_sleep"}

\* The task is resumed at the head of `while True` (first run, or a sleep of
\* line 202 or 233 is over) with an empty watchlist: lines 201-203.
LoopIdle ==
    /\ loopPc \in LoopWakePoints
    /\ ~cancelRequested
    /\ NothingToCheck(monitored_users)
    /\ loopPc' = "idle_sleep"
    /\ UNCHANGED << mainVars, reddit_token, storeVars, cancelRequested,
                    loopLocals, cmdVars, sweepHist, stepNotes >>

\* The same with a non-empty watchlist: the sweep starts on a copy.
LoopSweepStart ==
    /\ loopPc \in LoopWakePoints
    /\ ~cancelRequested
    /\ ~NothingToCheck(monitored_users)
    /\ NextIteration(monitored_users, {}, ZeroProbes, monitored_users)
    /\ UNCHANGED << mainVars, reddit_token, storeVars, cancelRequested,
                    cmdVars >>

\* The token request made by the loop's check returns.  A failure raises out
\* of _check_user_status and is caught at line 229: the for loop goes on
\* without the pause of line 227.
LoopAuthReturn(out) ==
    /\ loopPc = "auth"
    /\ ~cancelRequested
    /\ out \in TokenAnswers
    /\ IF out = "fail"
       THEN /\ IF OnCheckError = "continue"
               THEN NextIteration(snapshot, visited, probes, atStart)
               ELSE LoopEnds
            /\ UNCHANGED reddit_token
       ELSE /\ reddit_token' = out
            /\ loopPc' = "probe"
            /\ UNCHANGED << loopLocals, sweepHist, stepNotes >>
    /\ UNCHANGED << mainVars, storeVars, cancelRequested, cmdVars >>

\* The source's answer to the loop's lookup arrives; the task is resumed by
\* a later step of the event loop.
SourceResponds(resp, real) ==
    /\ loopPc = "probe"
    /\ response = "none"
    /\ resp \in LookupAnswers(real)
    /\ response' = resp
    /\ truth' = real
    /\ UNCHANGED << mainVars, reddit_token, storeVars, loopPc, cancelRequested,
                    snapshot, visited, username, is_active, send_result,
                    cmdVars, sweepHist, stepNotes >>

\* The task is resumed with the answer (lines 166-179) and the step runs on
\* through lines 210-224: to the notification POST if the status changed,
\* else through the status write to the pause of line 227.
LoopProbeReturn ==
    /\ loopPc = "probe"
    /\ ~cancelRequested
    /\ response # "none"
    /\ LET cur == CheckResult(response)
           previous_status == GetStatus(user_status, username, TRUE)
           kind == NotifyKind(previous_status, cur)
       IN  /\ is_active' = cur
           /\ IF kind # "none"
              THEN /\ loopPc' = "send"
                   /\ send_result' = "pending"
                   /\ stepNotes' = Append(stepNotes, kind)
                   /\ UNCHANGED user_status
              ELSE /\ loopPc' = "pause"
                   /\ user_status' = StepStatus(user_status, username, cur)
                   /\ UNCHANGED << send_result, stepNotes >>
    /\ response' = "none"
    /\ truth' = "none"
    /\ UNCHANGED << mainVars, reddit_token, monitored_users, cancelRequested,
                    snapshot, visited, username, cmdVars, sweepHist >>

\* The messaging service takes the notification that is in flight.
TelegramAccepts ==
    /\ loopPc = "send"
    /\ send_result = "pending"
    /\ send_result' = "accepted"
    /\ UNCHANGED << mainVars, reddit_token, storeVars, loopPc, cancelRequested,
                    snapshot, visited, username, response, truth, is_active,
                    cmdVars, sweepHist, stepNotes >>

\* The outcome of the notification POST arrives: 200 ("ok") for a message
\* the service took, or a non-200 answer or a transport error ("failed").
TelegramResponds(res) ==
    /\ loopPc = "send"
    /\ \/ send_result = "accepted" /\ res \in {"ok", "failed"}
       \/ send_result = "pending" /\ res = "failed"
    /\ send_result' = res
    /\ UNCHANGED << mainVars, reddit_token, storeVars, loopPc, cancelRequested,
                    snapshot, visited, username, response, truth, is_active,
                    cmdVars, sweepHist, stepNotes >>

\* The task is resumed in _send_telegram_message (lines 192-195): the step
\* runs on through line 224 to the pause of line 227.
LoopSendReturn ==
    /\ loopPc = "send"
    /\ ~cancelRequested
    /\ send_result \in {"ok", "failed"}
    /\ IF SendRaises(send_result)
       THEN /\ NextIteration(snapshot, visited, probes, atStart)
            /\ UNCHANGED user_status
       ELSE /\ user_status' = StepStatus(user_status, username, is_active)
            /\ loopPc' = "pause"
            /\ UNCHANGED << loopLocals, sweepHist, stepNotes >>
    /\ UNCHANGED << mainVars, reddit_token, monitored_users, cancelRequested,
                    cmdVars >>

\* The pause of line 227 is over.
LoopPauseReturn ==
    /\ loopPc = "pause"
    /\ ~cancelRequested
    /\ NextIteration(snapshot, visited, probes, atStart)
    /\ UNCHANGED << mainVars, reddit_token, storeVars, cancelRequested,
                    cmdVars >>

\* The cancellation is delivered at the await the task is suspended in:
\* CancelledError passes the handlers of lines 177, 194 and 229 and reaches
\* line 235, which leaves the loop.
LoopCancelled ==
    /\ cancelRequested
    /\ loopPc \in LoopSuspended
    /\ LoopEnds
    /\ UNCHANGED << mainVars, reddit_token, storeVars, cancelRequested,
                    cmdVars >>

-----------------------------------------------------------------------------
\* The command handlers.  u is the username after line 261 / 285.

CommandsReceived == mainPc \in {"running", "stop_await"} /\ cmdPc = "idle"

\* An /add that takes every name for a new one.
AlreadyMonitoredNever(u, users) == FALSE

\* Line 263: `if username in self.monitored_users`.
AlreadyMonitored(u, users) == u \in users

\* /add up to its first await that suspends: the reply of line 264 for a
\* name that is watched already, else the first await of the check.
AddCommand(u) ==
    /\ CommandsReceived
    /\ cmdUser' = u
    /\ IF AlreadyMonitored(u, monitored_users)
       THEN cmdPc' = "add_known_reply"
       ELSE cmdPc' = IF reddit_token = "none" THEN "add_auth" ELSE "add_probe"
    /\ UNCHANGED cmd_is_active
    /\ UNCHANGED << mainVars, reddit_token, storeVars, loopPc,
                    cancelRequested, loopLocals, sweepHist, stepNotes >>

\* The token request made by /add's check returns; a failure ends the handler
\* with an exception, before line 270.
AddAuthReturn(out) ==
    /\ cmdPc = "add_auth"
    /\ out \in TokenAnswers
    /\ IF out = "fail"
       THEN /\ cmdPc' = "idle"
            /\ cmdUser' = NoUser
            /\ UNCHANGED reddit_token
       ELSE /\ reddit_token' = out
            /\ cmdPc' = "add_probe"
            /\ UNCHANGED cmdUser
    /\ UNCHANGED cmd_is_active
    /\ UNCHANGED << mainVars, storeVars, loopPc, cancelRequested,
                    loopLocals, sweepHist, stepNotes >>

\* An /add that records the membership and leaves the status to the loop.
AddedStatusNone(st, u, cur) == st

\* Line 271, run with line 270 and no await between them.
AddedStatus(st, u, cur) == SetStatus(st, u, cur)

\* /add's lookup returns: lines 268-275, up to the await of the reply.
AddProbeReturn(resp, real) ==
    /\ cmdPc = "add_probe"
    /\ resp \in LookupAnswers(real)
    /\ cmd_is_active' = CheckResult(resp)
    /\ monitored_users' = monitored_users \cup {cmdUser}
    /\ user_status' = AddedStatus(user_status, cmdUser, CheckResult(resp))
    /\ cmdPc' = "add_reply"
    /\ UNCHANGED << mainVars, reddit_token, loopPc, cancelRequested,
                    loopLocals, cmdUser, sweepHist, stepNotes >>

\* /add's reply (line 264 or 275) was sent, or failed: the handler ends.
AddReplyReturn ==
    /\ cmdPc \in {"add_reply", "add_known_reply"}
    /\ cmdPc' = "idle"
    /\ cmdUser' = NoUser
    /\ cmd_is_active' = TRUE
    /\ UNCHANGED << mainVars, reddit_token, storeVars, loopPc, cancelRequested,
                    loopLocals, sweepHist, stepNotes >>

\* /remove: lines 287-295.
RemoveCommand(u) ==
    /\ CommandsReceived
    /\ IF u \notin monitored_users
       THEN UNCHANGED storeVars
       ELSE /\ monitored_users' = monitored_users \ {u}
            /\ user_status' = DelStatus(user_status, u)
    /\ UNCHANGED << mainVars, reddit_token, loopPc, cancelRequested,
                    loopLocals, cmdVars, sweepHist, stepNotes >>

-----------------------------------------------------------------------------

Next ==
    \/ Construct
    \/ ProcessExit
    \/ \E out \in TokenOutcomes : Initialize(out)
    \/ Start
    \/ StartPolling
    \/ StopCancel
    \/ StopFinish
    \/ TokenExpires
    \/ LoopIdle
    \/ LoopSweepStart
    \/ \E out \in TokenOutcomes : LoopAuthReturn(out)
    \/ \E resp \in Responses, real \in AccountStates : SourceResponds(resp, real)
    \/ LoopProbeReturn
    \/ TelegramAccepts
    \/ \E res \in {"ok", "failed"} : TelegramResponds(res)
    \/ LoopSendReturn
    \/ LoopPauseReturn
    \/ LoopCancelled
    \/ \E u \in Users : AddCommand(u)
    \/ \E out \in TokenOutcomes : AddAuthReturn(out)
    \/ \E resp \in Responses, real \in AccountStates : AddProbeReturn(resp, real)
    \/ AddReplyReturn
    \/ \E u \in Users : RemoveCommand(u)

Spec == Init /\ [][Next]_vars

-----------------------------------------------------------------------------
\* The command handlers as the user sees them: called with the argument as
\* typed, each run to its reply before the next command, the loop asleep.

CommandInit ==
    /\ arg = << >>
    /\ environ = RequiredVars
    /\ exitCode = "none"
    /\ mainPc = "running"
    /\ session = "open"
    /\ reddit_token = "valid"
    /\ monitored_users = {}
    /\ user_status = EmptyStatus
    /\ loopPc = "idle_sleep"
    /\ cancelRequested = FALSE
    /\ snapshot = {}
    /\ visited = {}
    /\ username = NoUser
    /\ response = "none"
    /\ truth = "none"
    /\ is_active = TRUE
    /\ send_result = "none"
    /\ cmdPc = "idle"
    /\ cmdUser = NoUser
    /\ cmd_is_active = TRUE
    /\ atStart = {}
    /\ probes = ZeroProbes
    /\ stepNotes = << >>

\* /add a: lines 261-275.  cmdPc keeps which reply the handler gave.
AddArgument(a, resp) ==
    LET name == Username(a) IN
    /\ arg' = a
    /\ cmdUser' = name
    /\ IF AlreadyMonitored(name, monitored_users)
       THEN /\ cmdPc' = "add_known_reply"
            /\ UNCHANGED << storeVars, cmd_is_active >>
       ELSE /\ Cardinality(monitored_users) < MaxNames
            /\ cmd_is_active' = CheckResult(resp)
            /\ monitored_users' = monitored_users \cup {name}
            /\ user_status' = AddedStatus(user_status, name, CheckResult(resp))
            /\ cmdPc' = "add_reply"
    /\ UNCHANGED << environ, exitCode, mainPc, session, reddit_token, loopPc,
                    cancelRequested, loopLocals, sweepHist, stepNotes >>

\* /remove a: lines 285-295.
RemoveArgument(a) ==
    LET name == Username(a) IN
    /\ arg' = a
    /\ cmdUser' = name
    /\ IF name \notin monitored_users
       THEN /\ cmdPc' = "remove_unknown_reply"
            /\ UNCHANGED storeVars
       ELSE /\ monitored_users' = monitored_users \ {name}
            /\ user_status' = DelStatus(user_status, name)
            /\ cmdPc' = "remove_reply"
    /\ UNCHANGED << environ, exitCode, mainPc, session, reddit_token, loopPc,
                    cancelRequested, loopLocals, cmd_is_active, sweepHist,
                    stepNotes >>

CommandNext ==
    \/ \E a \in Arguments, resp \in {"200", "404"} : AddArgument(a, resp)
    \/ \E a \in Arguments : RemoveArgument(a)

CommandSpec == CommandInit /\ [][CommandNext]_vars

\* The event loop resumes a task whose await is over, and every request and
\* sleep of the monitoring task comes to an end: the head of the while loop
\* runs after a sleep (lines 202, 233), a token request, a lookup and a
\* notification POST are answered, and the task is resumed with the answer.
LoopProgress ==
    /\ WF_vars(LoopSweepStart)
    /\ WF_vars(\E out \in TokenOutcomes : LoopAuthReturn(out))
    /\ WF_vars(\E resp \in Responses, real \in AccountStates :
                  SourceResponds(resp, real))
    /\ WF_vars(LoopProbeReturn)
    /\ WF_vars(\E res \in {"ok", "failed"} : TelegramResponds(res))
    /\ WF_vars(LoopSendReturn)
    /\ WF_vars(LoopPauseReturn)

FairSpec == Spec /\ LoopProgress

-----------------------------------------------------------------------------
\* Steps of the monitoring task, as the properties below recognise them.

\* The task is resumed with the answer to its lookup and decides.
LoopResumesFromProbe == loopPc = "probe" /\ loopPc' \in {"send", "pause"}

\* The task is resumed with the outcome of its notification POST.
LoopResumesFromSend == loopPc = "send" /\ loopPc' \notin {"send", "done"}

\* A sweep reaches the sleep of line 233.
SweepEnds == loopPc \in {"auth", "pause"} /\ loopPc' = "cycle_sleep"

\* The kinds of notification attempted in the current step.
Attempted(notes) == {notes[i] : i \in 1..Len(notes)}

-----------------------------------------------------------------------------
\* C1: an identifier that is not in the watchlist (never added, or removed
\* and not added again) has no entry in the status map, also when the removal
\* came while a sweep that had captured the identifier was suspended in its
\* probe or in its notification.
C1_RemovedHasNoStatus ==
    \A u \in Users : u \notin monitored_users => u \notin DOMAIN user_status

\* C2: when the loop's probe returns, with prev the stored status read at
\* that moment (absent read as TRUE) and cur the probe's result, a "banned"
\* notification is attempted iff prev /\ ~cur, a "restored" one iff
\* ~prev /\ cur, and none otherwise.
C2_TransitionDetection ==
    [][LoopResumesFromProbe =>
         LET prev == GetStatus(user_status, username, TRUE)
             cur == is_active'
         IN  /\ ("banned" \in Attempted(stepNotes')) <=> (prev /\ ~cur)
             /\ ("restored" \in Attempted(stepNotes')) <=> (~prev /\ cur)
             /\ (stepNotes' = << >>) <=> (prev = cur)
             /\ (loopPc' = "send") <=> (stepNotes' # << >>)
             /\ Len(stepNotes') <= 1]_vars

\* A "restored" notification is being sent for a name stored as banned and
\* probed active.
C2_Witness ==
    /\ loopPc = "send"
    /\ stepNotes = << "restored" >>
    /\ is_active
    /\ username \in DOMAIN user_status
    /\ ~user_status[username]

\* C3: when the loop's lookup of a name ends in a network or parse error,
\* the step leaves the status map as it was, attempts no notification and
\* goes on to the pause before the next name.
C3_TransientFailureUnchanged ==
    [][(LoopResumesFromProbe /\ response = "error") =>
         /\ user_status' = user_status
         /\ stepNotes' = << >>
         /\ loopPc' = "pause"]_vars

\* C4: /add with an active probe stores TRUE; a sweep step whose probe
\* differs from the stored status attempts exactly one notification, of the
\* kind of the change, and ends with the probed value stored; a step whose
\* probe equals the stored status attempts none and leaves it stored.
C4_OneNotificationPerTransition ==
    [][/\ (cmdPc = "add_probe" /\ cmdPc' = "add_reply" /\ cmd_is_active') =>
            /\ cmdUser \in monitored_users'
            /\ user_status'[cmdUser] = TRUE
       /\ (LoopResumesFromProbe /\ username \in monitored_users) =>
            LET stored == GetStatus(user_status, username, TRUE)
                cur == is_active'
            IN  IF cur # stored
                THEN /\ stepNotes' = << IF cur THEN "restored" ELSE "banned" >>
                     /\ loopPc' = "send"
                ELSE /\ stepNotes' = << >>
                     /\ loopPc' = "pause"
                     /\ GetStatus(user_status', username, ~cur) = cur
       /\ (LoopResumesFromSend /\ username \in monitored_users) =>
            /\ loopPc' = "pause"
            /\ stepNotes' = << IF is_active THEN "restored" ELSE "banned" >>
            /\ GetStatus(user_status', username, ~is_active) = is_active]_vars

\* A watched name went from active to not found: one "banned" notification
\* was delivered and the step stored FALSE.
C4_Witness ==
    /\ loopPc = "pause"
    /\ username \in monitored_users
    /\ stepNotes = << "banned" >>
    /\ send_result = "ok"
    /\ ~is_active
    /\ user_status[username] = FALSE

\* C5: the counts of /status: active + banned is the number of entries of
\* the status map, which is at most the number of watched names.
C5_CountsConsistency ==
    /\ ActiveCount(user_status) + BannedCount(user_status)
         = Cardinality(DOMAIN user_status)
    /\ Cardinality(DOMAIN user_status) <= TotalMonitored(monitored_users)

\* C6: when the loop's lookup is rejected as unauthorized (401: the held
\* token is invalid or expired), the check re-authenticates and retries, so
\* its result is the account's state at the source.
C6_TokenRefresh ==
    [][(LoopResumesFromProbe /\ response = "401") =>
         is_active' = (truth = "active")]_vars

\* C7: when the delivery of a notification failed, the step still stores the
\* probed status and goes on to the pause before the next name, with one
\* attempt made; and a notification is only ever attempted for a probe that
\* differs from the stored status, so the stored status must change again
\* before another attempt of that kind.
C7_DeliveryFailure ==
    [][/\ (LoopResumesFromSend /\ send_result = "failed") =>
            /\ loopPc' = "pause"
            /\ GetStatus(user_status', username, ~is_active) = is_active
            /\ snapshot' = snapshot
            /\ visited' = visited
            /\ Len(stepNotes') = 1
       /\ (LoopResumesFromProbe /\ loopPc' = "send") =>
            GetStatus(user_status, username, TRUE) # is_active']_vars

\* The delivery of a "banned" notification failed, FALSE is stored and the
\* sweep has a name left.
C7_Witness ==
    /\ loopPc = "pause"
    /\ send_result = "failed"
    /\ stepNotes = << "banned" >>
    /\ username \in DOMAIN user_status
    /\ user_status[username] = FALSE
    /\ snapshot \ visited # {}

\* C8: in a sweep the loop probes a name at most once and only a name that
\* was in the watchlist when the sweep started; a sweep that ends has probed
\* every such name exactly once and no name added meanwhile.
C8_SnapshotIsolation ==
    [][/\ SweepEnds =>
            \A u \in Users : probes[u] = IF u \in atStart THEN 1 ELSE 0
       /\ \A u \in Users :
            /\ probes'[u] <= 1
            /\ probes'[u] = 1 => u \in atStart']_vars

\* The sweep has probed all the names it started with, none of them is
\* watched any longer, and a name added during the sweep was not probed.
C8_Witness ==
    /\ loopPc = "pause"
    /\ visited = atStart
    /\ atStart \cap monitored_users = {}
    /\ \E u \in monitored_users : probes[u] = 0

\* C9: the monitoring task ends only after a cancellation was requested;
\* until then every step of it, also one that handles a failed token
\* request, lookup or notification, leaves it suspended in the loop.
C9_OnlyCancellationEnds ==
    /\ [](loopPc = "done" => cancelRequested)
    /\ [][(loopPc \in LoopSuspended /\ ~cancelRequested')
            => loopPc' \in LoopSuspended]_vars

\* No cancellation was requested, a notification failed and the loop runs on
\* with an invalid token.
C9_Witness ==
    /\ ~cancelRequested
    /\ loopPc = "pause"
    /\ send_result = "failed"
    /\ reddit_token # "valid"

\* C10: the step that delivers a cancellation ends the task with no status
\* write, the ended task takes no further step, and no transition is left
\* half applied: a notification the messaging service took while the stored
\* status of its name is not the probed value.
C10_CancellationNoPartialEffects ==
    [][/\ (loopPc \in LoopSuspended /\ loopPc' = "done") =>
            /\ storeVars' = storeVars
            /\ (loopPc = "send" /\ send_result \in {"accepted", "ok"}) =>
                 GetStatus(user_status', username, ~is_active) = is_active
       /\ loopPc = "done" => loopPc' = "done"]_vars

\* C11: stop() requests the cancellation before it waits, the session is
\* closed only by a step taken when the monitoring task has ended (or was
\* never created), and in no state is the task alive, let alone suspended in
\* a token request, a lookup or a notification, on a closed session.
C11_ShutdownOrdering ==
    /\ [](mainPc = "stop_await" => cancelRequested)
    /\ [](session = "closed" => loopPc \in {"none", "done"})
    /\ [][(session # "closed" /\ session' = "closed")
            => (loopPc \in {"none", "done"} /\ loopPc' = loopPc)]_vars

\* The bot was stopped while it watched a name: the task was cancelled and
\* has ended, and the session is closed.
C11_Witness ==
    /\ mainPc = "stopped"
    /\ session = "closed"
    /\ cancelRequested
    /\ loopPc = "done"
    /\ monitored_users # {}

\* C12: when a required variable is missing at startup, the process never
\* opens a session, gets a token, creates the monitoring task or receives a
\* command, and it ends with a non-zero exit status.
C12_FatalConfigurationError ==
    MissingVars(environ) # {} =>
        /\ session = "none"
        /\ reddit_token = "none"
        /\ loopPc = "none"
        /\ cmdPc = "idle"
        /\ mainPc \in {"process_start", "stopped", "exited"}
        /\ mainPc = "exited" => exitCode # 0

\* C13: an /add of a name that is in the watchlist starts no token request
\* and no lookup, and from its start to its end the handler leaves the
\* watchlist and the status map as they are: the name is not duplicated and
\* its recorded status is not reset.
C13_IdempotentAdd ==
    [][/\ (cmdPc = "idle" /\ cmdPc' # "idle" /\ cmdUser' \in monitored_users) =>
            /\ cmdPc' = "add_known_reply"
            /\ storeVars' = storeVars
       /\ (cmdPc = "add_known_reply" /\ cmdPc' # cmdPc) =>
            /\ cmdPc' = "idle"
            /\ storeVars' = storeVars]_vars

\* /add was called for a watched name whose recorded status is banned: the
\* handler is at its reply and the status is still banned.
C13_Witness ==
    /\ cmdPc = "add_known_reply"
    /\ cmdUser \in monitored_users
    /\ user_status = SetStatus(EmptyStatus, cmdUser, FALSE)

\* C14: whatever the status source answered to the loop's lookup, the check
\* returns FALSE exactly for a 404; for a 200, for a 401, for any other
\* code and for a transport or parse error it returns TRUE.
C14_FailOpenStatusCheck ==
    [][LoopResumesFromProbe =>
         /\ is_active' \in BOOLEAN
         /\ (is_active' = FALSE) <=> (response = "404")
         /\ response \in {"200", "401", "other", "error"} => is_active' = TRUE]_vars

\* The source answered the lookup of an account it does not have with a
\* code that is neither 200 nor 404, and the name is recorded as banned: the
\* check that is about to return reports it active.
C14_Witness ==
    /\ loopPc = "probe"
    /\ response = "other"
    /\ truth = "notfound"
    /\ username \in DOMAIN user_status
    /\ ~user_status[username]
    /\ ~cancelRequested

\* C15: a wake of the loop (its first run, or the end of its idle sleep or
\* of its cycle sleep) at which the watchlist is empty takes it to the idle
\* sleep with no name captured, no check made and no notification
\* attempted; a wake at which the watchlist is not empty starts a sweep on a
\* copy of it; and while the loop is in its idle sleep no lookup and no
\* notification of its own is in flight.
C15_IdleBackOff ==
    /\ [](loopPc = "idle_sleep" =>
            /\ snapshot = {}
            /\ probes = ZeroProbes
            /\ response = "none"
            /\ send_result = "none"
            /\ stepNotes = << >>)
    /\ [][(loopPc \in LoopWakePoints /\ loopPc' \notin {loopPc, "done"}) =>
            IF monitored_users = {}
            THEN /\ loopPc' = "idle_sleep"
                 /\ snapshot' = {}
                 /\ probes' = ZeroProbes
                 /\ stepNotes' = << >>
            ELSE /\ loopPc' \in {"auth", "probe"}
                 /\ snapshot' = monitored_users
                 /\ username' \in monitored_users
                 /\ probes'[username'] = 1]_vars

\* The bot runs with an empty watchlist, the loop is in its idle sleep, and
\* an /add is waiting for the answer to its own lookup.
C15_Witness ==
    /\ mainPc = "running"
    /\ loopPc = "idle_sleep"
    /\ monitored_users = {}
    /\ cmdPc = "add_probe"

\* The /add handler is resumed with the answer to its lookup.
AddResumesFromProbe == cmdPc = "add_probe" /\ cmdPc' = "add_reply"

\* C16: /add stores the result of its own lookup as the status of the name
\* and attempts no notification; and a step of the loop whose lookup was
\* answered not-found attempts a "banned" notification only for a name whose
\* stored status is TRUE, a value that only a lookup answered otherwise can
\* have stored: so a name that was not found when it was added, and has been
\* ever since, gets no "banned" notification.
C16_NoAlarmOnAdd ==
    [][/\ AddResumesFromProbe =>
            /\ user_status'[cmdUser] = cmd_is_active'
            /\ stepNotes' = stepNotes
            /\ send_result' = send_result
            /\ loopPc' = loopPc
       /\ (LoopResumesFromProbe /\ response = "404"
             /\ "banned" \in Attempted(stepNotes')) =>
            /\ username \in DOMAIN user_status
            /\ user_status[username] = TRUE
       /\ \A u \in Users :
            (/\ GetStatus(user_status', u, FALSE) = TRUE
             /\ GetStatus(user_status, u, FALSE) = FALSE) =>
                \/ AddResumesFromProbe /\ cmdUser = u /\ cmd_is_active'
                \/ LoopResumesFromProbe /\ username = u /\ response # "404"
                \/ LoopResumesFromSend /\ username = u /\ is_active]_vars

\* C17: the loop starts the POST of a "banned" or "restored" notification
\* only for a name that is in the watchlist at that moment, also when a
\* /remove of the name ran while the loop was suspended in its lookup.
C17_NotificationsOnlyForWatched ==
    [][(LoopResumesFromProbe /\ loopPc' = "send") =>
         username \in monitored_users']_vars

\* C18: in every state each name in the watchlist has an entry in the
\* status map, whatever the interleaving of /add, /remove and the steps of
\* the sweep.
C18_EveryMemberHasStatus ==
    \A u \in monitored_users : u \in DOMAIN user_status

\* A sweep that started with one name is sending a notification for it
\* while an /add that just inserted another name waits for its reply: both
\* names are watched and both have a status.
C18_Witness ==
    /\ loopPc = "send"
    /\ cmdPc = "add_reply"
    /\ cmdUser # username
    /\ cmdUser \notin snapshot
    /\ monitored_users = {username, cmdUser}
    /\ DOMAIN user_status = monitored_users

\* The stored status of u.
StoredTrue(u) == u \in DOMAIN user_status /\ user_status[u]
StoredFalse(u) == u \in DOMAIN user_status /\ ~user_status[u]

\* The answer to the loop's lookup of u has arrived and is not a 404.
AnsweredOtherwise(u) ==
    loopPc = "probe" /\ username = u /\ response \notin {"none", "404"}

\* u is watched, no lookup of it is answered otherwise than not-found, and
\* the loop's check is not held up at a token request.
FoundMissing(u) ==
    /\ u \in monitored_users
    /\ ~AnsweredOtherwise(u)
    /\ loopPc # "auth"

\* The loop's current step has attempted a "banned" notification for u.
BannedAttempted(u) == username = u /\ "banned" \in Attempted(stepNotes)

\* C19: with the loop never cancelled and every request and sleep of it
\* returning, if from some point on u stays in the watchlist and every
\* lookup of u is answered not-found, then the stored status of u is FALSE
\* from some point on; and whenever u is stored as active and stays so
\* watched and so answered from then on, a "banned" notification is
\* attempted for u.
C19_EventualDetection ==
    \A u \in Users :
        /\ ([]~cancelRequested /\ <>[]FoundMissing(u)) => <>[]StoredFalse(u)
        /\ [](([]~cancelRequested /\ StoredTrue(u) /\ []FoundMissing(u))
                 => <>BannedAttempted(u))

\* A sweep's last step delivered a "banned" notification for a watched name
\* and stored FALSE, with a valid token and no cancellation requested.
C19_Witness ==
    /\ ~cancelRequested
    /\ reddit_token = "valid"
    /\ loopPc = "pause"
    /\ snapshot = visited
    /\ username \in monitored_users
    /\ BannedAttempted(username)
    /\ StoredFalse(username)

\* C20: the name a command works on is the plain name its argument is a way
\* to write (N, u/N or /u/N); so after an /add the plain name is in the
\* watchlist, after a /remove it is not, and the watchlist holds plain names
\* only, whichever way each was written.
C20_PrefixNormalisation ==
    arg # << >> =>
        /\ cmdUser = Denoted(arg)
        /\ monitored_users \subseteq PlainNames
        /\ cmdPc \in {"add_reply", "add_known_reply"} =>
              Denoted(arg) \in monitored_users
        /\ cmdPc \in {"remove_reply", "remove_unknown_reply"} =>
              Denoted(arg) \notin monitored_users

====
